---- MODULE Spec2Model ----
(***************************************************************************)
(* Vector addition calculator (vector_addition.py and its front-ends).     *)
(*                                                                         *)
(* Numbers.  Python floats are modelled by a small binary floating-point   *)
(* format: a sign bit s and a magnitude m counted in quanta of 1e-7, kept  *)
(* to Precision significant bits (round to nearest, ties to even).  A      *)
(* result below half a quantum rounds to a zero that keeps its sign, so    *)
(* +0.0 and -0.0 are different values that compare equal, as in IEEE-754.  *)
(* Angles are integers counted in thousandths of a degree.                 *)
(***************************************************************************)
EXTENDS Integers, Sequences, FiniteSets, TLC

VARIABLES
    max_size,       \* VectorHistory.max_size
    history,        \* VectorHistory.history: list of references to entry dicts
    heap,           \* the entry dicts, by reference (index = creation order)
    now,            \* datetime.now(): number of entries created so far
    view,           \* the list last returned to a caller by get_all / get_last
    op,             \* the operation performed by the last step
    arg,            \* its argument (n of get_last, the input of a calculation)
    nadds,          \* number of add calls since the log was last empty
    forces,         \* calculation inputs: sequence of [mag, angle]
    forces_p,       \* the same inputs supplied in another order
    av,             \* add_vectors(forces[1], forces[2]), or None
    sl,             \* N-vector summation of the Streamlit front-end on forces
    av_p,           \* add_vectors on forces_p
    sl_p,           \* N-vector summation on forces_p
    arcs,           \* which angle arcs plot_vectors has drawn, or None
    frontend,       \* which front-end runs: "gui", "lib", "animated", "streamlit"
    history_index,  \* ModernVectorGUI.history_index
    stored_vectors, \* ModernVectorGUI.stored_vectors
    last_result,    \* st.session_state.last_result
    show_result,    \* st.session_state.show_result
    display,        \* what the result area shows
    solution,       \* what the solution panel of the desktop GUI shows
    probe,          \* arguments drawn for relative_angle, quadrant, contribution_note
    out,            \* what those functions returned for probe, or None
    calc,           \* the latest calculation of a two-force request, or None
    text,           \* what generate_solution_text wrote for calc, or None
    plot,           \* axis limits and arc radii of the plot of calc, or None
    animation_enabled,  \* ModernVectorGUI.animation_enabled
    animation_running,  \* ModernVectorGUI.animation_running
    animation_id,       \* ModernVectorGUI.animation_id: the id root.after returned (0: None)
    animation_progress, \* ModernVectorGUI.animation_progress, in hundredths
    timers,         \* the animate_step callbacks Tk still has to run, by id
    vectors,        \* the calculation held in stored_vectors (0: None), by number
    canvas,         \* the frame the canvas shows: what the last draw painted
    event           \* the handler that ran last and the timer it cancelled

vars == <<max_size, history, heap, now, view, op, arg, nadds,
          forces, forces_p, av, sl, av_p, sl_p, arcs,
          frontend, history_index, stored_vectors, last_result, show_result,
          display, solution, probe, out, calc, text, plot,
          animation_enabled, animation_running, animation_id, animation_progress,
          timers, vectors, canvas, event>>

histVars == <<max_size, history, heap, now, view, op, arg, nadds>>
calcVars == <<forces, forces_p, av, sl, av_p, sl_p, arcs>>
appVars == <<frontend, history_index, stored_vectors, last_result, show_result,
             display, solution>>
fnVars == <<probe, out, calc, text, plot>>
animVars == <<animation_enabled, animation_running, animation_id, animation_progress,
              timers, vectors, canvas, event>>

None == [none |-> TRUE]

\* no front-end session: the state of the variables a specification leaves alone
NoSession ==
    /\ frontend = "none" /\ history_index = -1 /\ stored_vectors = None
    /\ last_result = None /\ show_result = FALSE /\ display = None /\ solution = None
NoProbe ==
    /\ probe = None /\ out = None /\ calc = None /\ text = None /\ plot = None
NoCalculation ==
    /\ forces = <<>> /\ forces_p = None
    /\ av = None /\ sl = None /\ av_p = None /\ sl_p = None /\ arcs = None
NoAnimation ==
    /\ animation_enabled = TRUE /\ animation_running = FALSE /\ animation_id = 0
    /\ animation_progress = 0 /\ timers = {} /\ vectors = 0
    /\ canvas = None /\ event = None

Abs(n) == IF n < 0 THEN -n ELSE n
Min(a, b) == IF a <= b THEN a ELSE b
Max(a, b) == IF a >= b THEN a ELSE b

(***************************************************************************)
(* Bounds of the model.                                                    *)
(***************************************************************************)
Precision == 4      \* significant bits of a number (53 in a Python float)
MaxSize == 3        \* largest max_size tried (the program's default is 50)
MaxClock == 5       \* entries created in one run
MaxForces == 3      \* forces in one N-vector summation (the program allows 10)
MaxMutations == 1   \* changes a caller makes to one returned list

(***************************************************************************)
(* Floating-point numbers.                                                 *)
(***************************************************************************)
F(n) == [s |-> IF n < 0 THEN 1 ELSE 0, m |-> Abs(n)]
NegZero == [s |-> 1, m |-> 0]
Val(a) == IF a.s = 1 THEN -a.m ELSE a.m

RECURSIVE Pow2(_)
Pow2(k) == IF k = 0 THEN 1 ELSE 2 * Pow2(k - 1)

RECURSIVE Shift(_, _)
\* number of low bits a magnitude n must lose to fit in Precision bits
Shift(n, k) == IF n < Pow2(Precision + k) THEN k ELSE Shift(n, k + 1)

\* n rounded to Precision significant bits, ties to the even significand
RoundP(n) ==
    LET k == Shift(n, 0)
        q == Pow2(k)
        r == n % q
        base == n - r
    IN  IF k = 0 THEN n
        ELSE IF 2 * r < q THEN base
        ELSE IF 2 * r > q THEN base + q
        ELSE IF (base \div q) % 2 = 0 THEN base ELSE base + q

\* a + b
FAdd(a, b) ==
    LET n == Val(a) + Val(b)
    IN  IF n = 0
        THEN IF a.m = 0 /\ b.m = 0 /\ a.s = 1 /\ b.s = 1 THEN NegZero ELSE F(0)
        ELSE [s |-> IF n < 0 THEN 1 ELSE 0, m |-> RoundP(Abs(n))]

\* integer nearest to p / q, ties to even
RoundDiv(p, q) ==
    LET d == p \div q
        r == p % q
    IN  IF 2 * r < q THEN d
        ELSE IF 2 * r > q THEN d + 1
        ELSE IF d % 2 = 0 THEN d ELSE d + 1

(***************************************************************************)
(* np.cos(np.radians(a)) and np.sin(np.radians(a)) for the angles of the   *)
(* model, in ten-thousandths, with the sign the library returns: at the    *)
(* axes radians(a) is not exactly a multiple of pi/2 and the result is a   *)
(* residual of about 1e-16 whose sign is kept (cos 90 > 0, sin 180 > 0,    *)
(* cos 270 < 0, sin 360 < 0).                                              *)
(***************************************************************************)
TrigDen == 10 * 1000
Deg(d) == d * 1000

np_cos(a) ==
    CASE a = Deg(0)   -> [s |-> 0, num |-> 10000]
      [] a = Deg(87)  -> [s |-> 0, num |-> 523]
      [] a = Deg(-90) -> [s |-> 0, num |-> 0]
      [] a = Deg(450) -> [s |-> 0, num |-> 0]
      [] a = Deg(45)  -> [s |-> 0, num |-> 7071]
      [] a = Deg(90)  -> [s |-> 0, num |-> 0]
      [] a = Deg(135) -> [s |-> 1, num |-> 7071]
      [] a = Deg(180) -> [s |-> 1, num |-> 10000]
      [] a = Deg(225) -> [s |-> 1, num |-> 7071]
      [] a = Deg(270) -> [s |-> 1, num |-> 0]
      [] a = Deg(315) -> [s |-> 0, num |-> 7071]
      [] a = Deg(360) -> [s |-> 0, num |-> 10000]

np_sin(a) ==
    CASE a = Deg(0)   -> [s |-> 0, num |-> 0]
      [] a = Deg(87)  -> [s |-> 0, num |-> 9986]
      [] a = Deg(-90) -> [s |-> 1, num |-> 10000]
      [] a = Deg(450) -> [s |-> 0, num |-> 10000]
      [] a = Deg(45)  -> [s |-> 0, num |-> 7071]
      [] a = Deg(90)  -> [s |-> 0, num |-> 10000]
      [] a = Deg(135) -> [s |-> 0, num |-> 7071]
      [] a = Deg(180) -> [s |-> 0, num |-> 0]
      [] a = Deg(225) -> [s |-> 1, num |-> 7071]
      [] a = Deg(270) -> [s |-> 1, num |-> 10000]
      [] a = Deg(315) -> [s |-> 1, num |-> 7071]
      [] a = Deg(360) -> [s |-> 1, num |-> 0]

\* mag * t, t a value of np_cos / np_sin
FMulTrig(mag, t) ==
    [s |-> (mag.s + t.s) % 2, m |-> RoundP(RoundDiv(mag.m * t.num, TrigDen))]

RECURSIVE Floor_sqrt(_, _, _)
\* the integer i in lo..hi with i * i <= n < (i + 1) * (i + 1), by bisection
Floor_sqrt(n, lo, hi) ==
    IF lo = hi THEN lo
    ELSE LET mid == (lo + hi + 1) \div 2
         IN  IF mid * mid <= n THEN Floor_sqrt(n, mid, hi) ELSE Floor_sqrt(n, lo, mid - 1)

\* np.sqrt(x**2 + y**2)
FSqrtSumSq(x, y) ==
    LET n == RoundP(RoundP(x.m * x.m) + RoundP(y.m * y.m))
        r == Floor_sqrt(n, 0, 2 * (x.m + y.m) + 1)
    IN  F(RoundP(IF n - r * r > r THEN r + 1 ELSE r))

\* arctan(p / q) in thousandths of a degree, for 0 < p <= q
AtanRatio(p, q) == (45000 * p) \div q + (15640 * p * (q - p)) \div (q * q)

\* np.degrees(np.arctan2(y, x)), in thousandths of a degree
np_arctan2_deg(y, x) ==
    IF y.m = 0
    THEN IF x.s = 0 THEN 0
         ELSE IF y.s = 0 THEN Deg(180) ELSE -Deg(180)
    ELSE IF x.m = 0
    THEN IF y.s = 0 THEN Deg(90) ELSE -Deg(90)
    ELSE LET a == IF y.m <= x.m THEN AtanRatio(y.m, x.m)
                  ELSE Deg(90) - AtanRatio(x.m, y.m)
             b == IF x.s = 0 THEN a ELSE Deg(180) - a
         IN  IF y.s = 0 THEN b ELSE -b

(***************************************************************************)
(* vector_addition.py: constants.                                          *)
(***************************************************************************)
ZERO_THRESHOLD == 10            \* 1e-6, in quanta of 1e-7
ARC_BASE_RADIUS_RATIO == 15     \* 0.15, in hundredths
ARC_F1_RADIUS_RATIO == 70       \* 0.7, in hundredths
ARC_F2_RADIUS_RATIO == 100      \* 1.0, in hundredths
ARC_FR_RADIUS_RATIO == 135      \* 1.35, in hundredths

(***************************************************************************)
(* vector_addition.py: VectorData, validate_input, add_vectors.            *)
(***************************************************************************)
VectorData(x, y, mag, angle) == [x |-> x, y |-> y, mag |-> mag, angle |-> angle]

\* validate_input without its "magnitude < 0" test
validate_input_AcceptsAll(magnitude, angle, name) == FALSE

\* TRUE when validate_input raises ValueError
validate_input(magnitude, angle, name) == Val(magnitude) < 0

ValueError(name, magnitude) == [err |-> TRUE, name |-> name, value |-> magnitude]

\* the resultant of the component sums r_x, r_y
Resultant(r_x, r_y) ==
    VectorData(r_x, r_y, FSqrtSumSq(r_x, r_y), np_arctan2_deg(r_y, r_x))

\* add_vectors with np.sin and np.cos exchanged in the components
add_vectors_SwapsSinCos(f1_mag, f1_angle, f2_mag, f2_angle) ==
    IF Val(f1_mag) < 0
    THEN ValueError("Force 1", f1_mag)
    ELSE IF Val(f2_mag) < 0
    THEN ValueError("Force 2", f2_mag)
    ELSE LET f1_x == FMulTrig(f1_mag, np_sin(f1_angle))
             f1_y == FMulTrig(f1_mag, np_cos(f1_angle))
             f2_x == FMulTrig(f2_mag, np_sin(f2_angle))
             f2_y == FMulTrig(f2_mag, np_cos(f2_angle))
         IN  [err |-> FALSE,
              f1 |-> VectorData(f1_x, f1_y, f1_mag, f1_angle),
              f2 |-> VectorData(f2_x, f2_y, f2_mag, f2_angle),
              r |-> Resultant(FAdd(f1_x, f2_x), FAdd(f1_y, f2_y))]

\* add_vectors with "r_y = f1_y": the second force's y component is left out
add_vectors_DropsSecondY(f1_mag, f1_angle, f2_mag, f2_angle) ==
    IF Val(f1_mag) < 0
    THEN ValueError("Force 1", f1_mag)
    ELSE IF Val(f2_mag) < 0
    THEN ValueError("Force 2", f2_mag)
    ELSE LET f1_x == FMulTrig(f1_mag, np_cos(f1_angle))
             f1_y == FMulTrig(f1_mag, np_sin(f1_angle))
             f2_x == FMulTrig(f2_mag, np_cos(f2_angle))
             f2_y == FMulTrig(f2_mag, np_sin(f2_angle))
         IN  [err |-> FALSE,
              f1 |-> VectorData(f1_x, f1_y, f1_mag, f1_angle),
              f2 |-> VectorData(f2_x, f2_y, f2_mag, f2_angle),
              r |-> Resultant(FAdd(f1_x, f2_x), f1_y)]

add_vectors(f1_mag, f1_angle, f2_mag, f2_angle) ==
    IF validate_input(f1_mag, f1_angle, "Force 1")
    THEN ValueError("Force 1", f1_mag)
    ELSE IF validate_input(f2_mag, f2_angle, "Force 2")
    THEN ValueError("Force 2", f2_mag)
    ELSE LET f1_x == FMulTrig(f1_mag, np_cos(f1_angle))
             f1_y == FMulTrig(f1_mag, np_sin(f1_angle))
             f2_x == FMulTrig(f2_mag, np_cos(f2_angle))
             f2_y == FMulTrig(f2_mag, np_sin(f2_angle))
             r_x == FAdd(f1_x, f2_x)
             r_y == FAdd(f1_y, f2_y)
         IN  [err |-> FALSE,
              f1 |-> VectorData(f1_x, f1_y, f1_mag, f1_angle),
              f2 |-> VectorData(f2_x, f2_y, f2_mag, f2_angle),
              r |-> Resultant(r_x, r_y)]

(***************************************************************************)
(* streamlit_app.py: the N-vector summation of the calculate branch.       *)
(***************************************************************************)
\* vector_list: the components of every force
vector_list(fs) ==
    [i \in 1..Len(fs) |->
        VectorData(FMulTrig(fs[i].mag, np_cos(fs[i].angle)),
                   FMulTrig(fs[i].mag, np_sin(fs[i].angle)),
                   fs[i].mag, fs[i].angle)]

RECURSIVE Accumulate(_, _, _)
\* resultant += v for the values vs[i..], starting from acc
Accumulate(acc, vs, i) ==
    IF i > Len(vs) THEN acc ELSE Accumulate(FAdd(acc, vs[i]), vs, i + 1)

streamlit_sum(fs) ==
    LET vl == vector_list(fs)
        resultant_x == Accumulate(F(0), [i \in 1..Len(vl) |-> vl[i].x], 1)
        resultant_y == Accumulate(F(0), [i \in 1..Len(vl) |-> vl[i].y], 1)
    IN  [err |-> FALSE, vector_list |-> vl, r |-> Resultant(resultant_x, resultant_y)]

(***************************************************************************)
(* vector_addition.py: draw_angle_arc and the arcs plot_vectors draws.     *)
(***************************************************************************)
\* abs(angle) < ZERO_THRESHOLD for an angle in thousandths of a degree
AngleBelowThreshold(angle) == Abs(angle) * 1000 < 1

\* the arc drawn: None, or its radius (in 1e-4 quanta)
draw_angle_arc(angle, max_val, radius_ratio) ==
    IF AngleBelowThreshold(angle) THEN None
    ELSE [arc_radius |-> max_val.m * ARC_BASE_RADIUS_RATIO * radius_ratio]

MaxOf(S) == CHOOSE x \in S : \A y \in S : Val(y) <= Val(x)

FAbs(a) == [s |-> 0, m |-> a.m]

plot_max_val(f1, f2, r) ==
    MaxOf({FAbs(f1.x), FAbs(f1.y), FAbs(f2.x), FAbs(f2.y), FAbs(r.x), FAbs(r.y)})

plot_arcs(f1, f2, r) ==
    LET max_val == plot_max_val(f1, f2, r)
    IN  [f1 |-> draw_angle_arc(f1.angle, max_val, ARC_F1_RADIUS_RATIO),
         f2 |-> draw_angle_arc(f2.angle, max_val, ARC_F2_RADIUS_RATIO),
         r  |-> draw_angle_arc(r.angle, max_val, ARC_FR_RADIUS_RATIO)]

(***************************************************************************)
(* vector_addition.py: class VectorHistory.  The log is a Python list of   *)
(* references to entry dicts; heap[id] is the dict with reference id, and  *)
(* ids are handed out in creation order, so id order is insertion order.   *)
(***************************************************************************)
\* Python s[a:] and s[:b]
PySliceFrom(s, a) ==
    LET n == Len(s)
        st == IF a < 0 THEN Max(a + n, 0) ELSE Min(a, n)
    IN  SubSeq(s, st + 1, n)

PySliceTo(s, b) ==
    LET n == Len(s)
        en == IF b < 0 THEN Max(b + n, 0) ELSE Min(b, n)
    IN  SubSeq(s, 1, en)

\* the dict VectorHistory.add builds
Entry(timestamp, f1_mag, f1_angle, f2_mag, f2_angle, scale, result) ==
    [timestamp |-> timestamp,
     f1_mag |-> f1_mag, f1_angle |-> f1_angle,
     f2_mag |-> f2_mag, f2_angle |-> f2_angle,
     scale |-> scale, result |-> result]

\* the list after add appended the reference id (lines 127-131)
VectorHistory_add_NoTrim(hist, id, size) == Append(hist, id)

VectorHistory_add_KeepFirst(hist, id, size) ==
    LET a == Append(hist, id)
    IN  IF Len(a) > size THEN PySliceTo(a, size) ELSE a

VectorHistory_add(hist, id, size) ==
    LET a == Append(hist, id)
    IN  IF Len(a) > size THEN PySliceFrom(a, -size) ELSE a

\* get_all: a new list holding the same references
VectorHistory_get_all(hist) == hist

\* get_last(n)
VectorHistory_get_last(hist, n) ==
    IF hist # <<>> THEN PySliceFrom(hist, -n) ELSE <<>>

\* Reference counting: a dict no list refers to any more is freed.
Freed == [freed |-> TRUE]
Refs(list) == {list[i] : i \in 1..Len(list)}
Collect(hp, live) == [i \in 1..Len(hp) |-> IF i \in live THEN hp[i] ELSE Freed]

\* the entries of the log by value: what a reader of the log sees
LogContents == [i \in 1..Len(history) |-> heap[history[i]]]

(***************************************************************************)
(* A caller of the VectorHistory API: add, clear, get_all, get_last, and   *)
(* what a caller can do with a returned list before it calls add or clear  *)
(* again (the list is then dropped).                                       *)
(***************************************************************************)
HistMags == {F(9), F(12)}
CallerOps == {"caller_remove", "caller_append", "caller_reverse", "caller_set_field"}

InitHistory ==
    /\ max_size \in 1..MaxSize
    /\ history = <<>> /\ heap = <<>> /\ now = 0
    /\ view = None /\ op = "init" /\ arg = 0 /\ nadds = 0
    /\ NoCalculation
    /\ NoSession
    /\ NoProbe
    /\ NoAnimation

HistAdd ==
    /\ now < MaxClock
    /\ history' = VectorHistory_add(history, now + 1, max_size)
    /\ \E m \in HistMags :
          LET res == add_vectors(m, Deg(0), F(0), Deg(0))
              e == Entry(now + 1, m, Deg(0), F(0), Deg(0), 10, res.r)
          IN  heap' = Collect(Append(heap, e), Refs(history'))
    /\ now' = now + 1
    /\ nadds' = nadds + 1
    /\ view' = None
    /\ op' = "add" /\ arg' = 0
    /\ UNCHANGED max_size
    /\ UNCHANGED calcVars
    /\ UNCHANGED appVars
    /\ UNCHANGED fnVars
    /\ UNCHANGED animVars

HistClear ==
    /\ history' = <<>>
    /\ heap' = Collect(heap, {})
    /\ nadds' = 0
    /\ view' = None
    /\ op' = "clear" /\ arg' = 0
    /\ UNCHANGED <<max_size, now>>
    /\ UNCHANGED calcVars
    /\ UNCHANGED appVars
    /\ UNCHANGED fnVars
    /\ UNCHANGED animVars

HistGetAll ==
    /\ view' = [src |-> "get_all", items |-> VectorHistory_get_all(history), muts |-> 0]
    /\ op' = "get_all" /\ arg' = 0
    /\ UNCHANGED <<max_size, history, heap, now, nadds>>
    /\ UNCHANGED calcVars
    /\ UNCHANGED appVars
    /\ UNCHANGED fnVars
    /\ UNCHANGED animVars

HistGetLast ==
    /\ \E n \in 0..(MaxSize + 1) :
          /\ view' = [src |-> "get_last", items |-> VectorHistory_get_last(history, n), muts |-> 0]
          /\ arg' = n
    /\ op' = "get_last"
    /\ UNCHANGED <<max_size, history, heap, now, nadds>>
    /\ UNCHANGED calcVars
    /\ UNCHANGED appVars
    /\ UNCHANGED fnVars
    /\ UNCHANGED animVars

\* del returned[i]
CallerRemove ==
    /\ view # None /\ view.muts < MaxMutations
    /\ \E i \in 1..Len(view.items) :
          view' = [view EXCEPT !.muts = @ + 1, !.items =
                      SubSeq(view.items, 1, i - 1) \o SubSeq(view.items, i + 1, Len(view.items))]
    /\ op' = "caller_remove" /\ arg' = 0
    /\ UNCHANGED <<max_size, history, heap, now, nadds>>
    /\ UNCHANGED calcVars
    /\ UNCHANGED appVars
    /\ UNCHANGED fnVars
    /\ UNCHANGED animVars

\* returned.append(e) for an entry dict e the caller holds
CallerAppend ==
    /\ view # None /\ view.muts < MaxMutations
    /\ \E id \in Refs(history) \cup Refs(view.items) :
          view' = [view EXCEPT !.muts = @ + 1, !.items = Append(view.items, id)]
    /\ op' = "caller_append" /\ arg' = 0
    /\ UNCHANGED <<max_size, history, heap, now, nadds>>
    /\ UNCHANGED calcVars
    /\ UNCHANGED appVars
    /\ UNCHANGED fnVars
    /\ UNCHANGED animVars

\* returned.reverse()
CallerReverse ==
    /\ view # None /\ view.muts < MaxMutations /\ Len(view.items) >= 2
    /\ view' = [view EXCEPT !.muts = @ + 1, !.items =
                   [i \in 1..Len(view.items) |-> view.items[Len(view.items) + 1 - i]]]
    /\ op' = "caller_reverse" /\ arg' = 0
    /\ UNCHANGED <<max_size, history, heap, now, nadds>>
    /\ UNCHANGED calcVars
    /\ UNCHANGED appVars
    /\ UNCHANGED fnVars
    /\ UNCHANGED animVars

\* returned[i]['f1_mag'] = m
CallerSetField ==
    /\ view # None /\ view.muts < MaxMutations
    /\ \E i \in 1..Len(view.items), m \in HistMags :
          /\ heap[view.items[i]].f1_mag # m
          /\ heap' = [heap EXCEPT ![view.items[i]].f1_mag = m]
    /\ view' = [view EXCEPT !.muts = @ + 1]
    /\ op' = "caller_set_field" /\ arg' = 0
    /\ UNCHANGED <<max_size, history, now, nadds>>
    /\ UNCHANGED calcVars
    /\ UNCHANGED appVars
    /\ UNCHANGED fnVars
    /\ UNCHANGED animVars

NextHistory ==
    \/ HistAdd
    \/ HistClear
    \/ HistGetAll
    \/ HistGetLast
    \/ CallerRemove
    \/ CallerAppend
    \/ CallerReverse
    \/ CallerSetField

SpecHistory == InitHistory /\ [][NextHistory]_vars

(***************************************************************************)
(* Claims about VectorHistory (checked under SpecHistory).                 *)
(***************************************************************************)
\* the last k elements of s
LastK(s, k) == SubSeq(s, Len(s) - k + 1, Len(s))

\* C1: with max_size >= 1, after any sequence of add and clear the number
\* of stored entries never exceeds max_size.
C1_Bounded == Len(history) <= max_size

\* C1 witness: the log is full and an add has evicted an entry.
C1_Witness_Evicted == op = "add" /\ nadds > max_size /\ Len(history) = max_size

\* C2: after k adds on an empty log with bound N the log holds exactly the
\* last min(k, N) entries added, oldest first.
C2_KeepsLastN ==
    history = [i \in 1..Min(nadds, max_size) |-> now - Min(nadds, max_size) + i]

\* C2 witness: more adds than the bound, so the oldest entries were evicted.
C2_Witness_Evicted == nadds = max_size + 2 /\ max_size >= 2 /\ history[1] = now - max_size + 1

\* C8: no mutation a caller performs on the value get_all returned changes
\* what the log holds.
C8_DefensiveCopy ==
    [][(view # None /\ view.src = "get_all" /\ op' \in CallerOps)
          => LogContents' = LogContents]_vars

\* C9: get_last(n) returns exactly the min(n, len(log)) most recent entries,
\* oldest first.
C9_GetLast ==
    op = "get_last" => view.items = LastK(history, Min(arg, Len(history)))

(***************************************************************************)
(* The calculation entry points as functions of their inputs.  Init draws  *)
(* the forces; the actions apply add_vectors (two forces) and the N-vector *)
(* summation to them and to the same forces supplied in another order, and *)
(* draw the angle arcs of plot_vectors.                                    *)
(***************************************************************************)
CalcMags == {F(-3), F(0), F(9), F(12)}
CalcAngles == {Deg(0), Deg(90), Deg(180)}
Force == [mag : CalcMags, angle : CalcAngles]
ForceSeqs == UNION {[1..n -> Force] : n \in 2..MaxForces}

\* fs supplied in the order given by the permutation p of its indices
Reordered(fs, p) == [i \in 1..Len(fs) |-> fs[p[i]]]
Orders(n) == {p \in [1..n -> 1..n] : \A i, j \in 1..n : p[i] = p[j] => i = j}

InitCalc ==
    /\ forces \in ForceSeqs
    /\ forces_p = None
    /\ av = None /\ sl = None /\ av_p = None /\ sl_p = None /\ arcs = None
    /\ max_size = 1 /\ history = <<>> /\ heap = <<>> /\ now = 0
    /\ view = None /\ op = "init" /\ arg = 0 /\ nadds = 0
    /\ NoSession
    /\ NoProbe
    /\ NoAnimation

RunAddVectors ==
    /\ Len(forces) = 2 /\ av = None
    /\ av' = add_vectors(forces[1].mag, forces[1].angle, forces[2].mag, forces[2].angle)
    /\ UNCHANGED <<forces, forces_p, sl, av_p, sl_p, arcs>>
    /\ UNCHANGED histVars
    /\ UNCHANGED appVars
    /\ UNCHANGED fnVars
    /\ UNCHANGED animVars

RunStreamlitSum ==
    /\ sl = None
    /\ Len(forces) = 2 => av # None
    /\ sl' = streamlit_sum(forces)
    /\ UNCHANGED <<forces, forces_p, av, av_p, sl_p, arcs>>
    /\ UNCHANGED histVars
    /\ UNCHANGED appVars
    /\ UNCHANGED fnVars
    /\ UNCHANGED animVars

PlotArcs ==
    /\ av # None /\ ~av.err /\ sl # None /\ arcs = None
    /\ arcs' = plot_arcs(av.f1, av.f2, av.r)
    /\ UNCHANGED <<forces, forces_p, av, sl, av_p, sl_p>>
    /\ UNCHANGED histVars
    /\ UNCHANGED appVars
    /\ UNCHANGED fnVars
    /\ UNCHANGED animVars

Reorder ==
    /\ sl # None /\ forces_p = None
    /\ (av # None /\ ~av.err) => arcs # None
    /\ \E p \in Orders(Len(forces)) :
          /\ Reordered(forces, p) # forces
          /\ forces_p' = Reordered(forces, p)
    /\ UNCHANGED <<forces, av, sl, av_p, sl_p, arcs>>
    /\ UNCHANGED histVars
    /\ UNCHANGED appVars
    /\ UNCHANGED fnVars
    /\ UNCHANGED animVars

RunAddVectorsReordered ==
    /\ forces_p # None /\ Len(forces_p) = 2 /\ av_p = None
    /\ av_p' = add_vectors(forces_p[1].mag, forces_p[1].angle,
                           forces_p[2].mag, forces_p[2].angle)
    /\ UNCHANGED <<forces, forces_p, av, sl, sl_p, arcs>>
    /\ UNCHANGED histVars
    /\ UNCHANGED appVars
    /\ UNCHANGED fnVars
    /\ UNCHANGED animVars

RunStreamlitSumReordered ==
    /\ forces_p # None /\ sl_p = None
    /\ Len(forces_p) = 2 => av_p # None
    /\ sl_p' = streamlit_sum(forces_p)
    /\ UNCHANGED <<forces, forces_p, av, sl, av_p, arcs>>
    /\ UNCHANGED histVars
    /\ UNCHANGED appVars
    /\ UNCHANGED fnVars
    /\ UNCHANGED animVars

NextCalc ==
    \/ RunAddVectors
    \/ RunStreamlitSum
    \/ PlotArcs
    \/ Reorder
    \/ RunAddVectorsReordered
    \/ RunStreamlitSumReordered

SpecCalc == InitCalc /\ [][NextCalc]_vars

(***************************************************************************)
(* Claims about the calculation entry points (checked under SpecCalc).     *)
(***************************************************************************)
AnyNegative(fs) == \E i \in 1..Len(fs) : Val(fs[i].mag) < 0

\* x, y, magnitude and angle compare equal (+0.0 == -0.0, as in Python)
SameVector(a, b) ==
    /\ Val(a.x) = Val(b.x) /\ Val(a.y) = Val(b.y)
    /\ Val(a.mag) = Val(b.mag) /\ a.angle = b.angle

RECURSIVE SumMag(_, _)
SumMag(fs, i) == IF i > Len(fs) THEN 0 ELSE fs[i].mag.m + SumMag(fs, i + 1)

C5_OrderIndependent ==
    /\ (av # None /\ av_p # None /\ ~av.err /\ ~av_p.err) => SameVector(av.r, av_p.r)
    /\ (sl # None /\ sl_p # None /\ ~AnyNegative(forces)) => SameVector(sl.r, sl_p.r)

\* C5 amended: for two inputs the resultant is the same in either order; for
\* three or more the component sums of two orders differ by no more than the
\* rounding error of the additions (2^-Precision of the summed magnitudes
\* per addition and order).
C5_OrderIndependentUpToRounding ==
    /\ (av # None /\ av_p # None /\ ~av.err /\ ~av_p.err) => SameVector(av.r, av_p.r)
    /\ (sl # None /\ sl_p # None /\ ~AnyNegative(forces)) =>
          IF Len(forces) = 2 THEN SameVector(sl.r, sl_p.r)
          ELSE LET tol == 2 * (Len(forces) - 1) * SumMag(forces, 1)
               IN  /\ Abs(Val(sl.r.x) - Val(sl_p.r.x)) * Pow2(Precision) <= tol
                   /\ Abs(Val(sl.r.y) - Val(sl_p.r.y)) * Pow2(Precision) <= tol

\* C5 witness: three forces summed in two orders whose sums were rounded
\* differently, and a pair added in both orders.
C5_Witness_Rounded ==
    /\ sl # None /\ sl_p # None /\ Len(forces) = 3 /\ ~AnyNegative(forces)
    /\ Val(sl.r.x) # Val(sl_p.r.x)

\* C6: for two inputs the N-vector summation gives the same components and
\* the same resultant as add_vectors.
C6_PathsAgree ==
    (Len(forces) = 2 /\ av # None /\ sl # None /\ ~av.err) =>
        /\ SameVector(av.f1, sl.vector_list[1])
        /\ SameVector(av.f2, sl.vector_list[2])
        /\ SameVector(av.r, sl.r)

\* C7: when both component sums are within ZERO_THRESHOLD of zero the
\* resultant has angle 0 and plot_vectors draws no arc for it.
C7_ZeroResultantAngle ==
    (av # None /\ ~av.err /\ av.r.x.m < ZERO_THRESHOLD /\ av.r.y.m < ZERO_THRESHOLD) =>
        /\ av.r.angle = 0
        /\ arcs # None => arcs.r = None


(***************************************************************************)
(* The front-ends that record calculations: the desktop GUI                *)
(* (calculate_and_plot, history_undo, history_redo), the library call      *)
(* plot_vectors(..., history=h), and the Calculate branch, the re-display  *)
(* branch and the input-change callback of the two Streamlit apps.  One    *)
(* session runs one front-end.                                             *)
(***************************************************************************)
Frontends == {"gui", "lib", "animated", "streamlit"}

\* what the user typed or set: text_ok is FALSE when float() cannot parse a field
Input(text_ok, scale, f1_mag, f1_angle, f2_mag, f2_angle) ==
    [text_ok |-> text_ok, scale |-> scale,
     f1_mag |-> f1_mag, f1_angle |-> f1_angle,
     f2_mag |-> f2_mag, f2_angle |-> f2_angle]

\* number_input(min_value=0.0) magnitudes and min_value=0.1 scale
WidgetInputs ==
    { Input(TRUE, 10, F(9), Deg(0), F(12), Deg(90)),
      Input(TRUE, 5, F(12), Deg(180), F(0), Deg(0)) }

\* free text entries of the desktop GUI, and arguments of a library call
TextInputs ==
    WidgetInputs \cup
    { Input(TRUE, 10, F(-3), Deg(0), F(9), Deg(0)),
      Input(TRUE, 10, F(9), Deg(90), F(-3), Deg(0)),
      Input(TRUE, 0, F(9), Deg(0), F(9), Deg(0)),
      Input(FALSE, 10, F(9), Deg(0), F(9), Deg(0)) }

\* the third force of the N-vector Streamlit app, when num_forces = 3
ExtraForce == [mag |-> F(9), angle |-> Deg(180)]

InputForces(inp) ==
    << [mag |-> inp.f1_mag, angle |-> inp.f1_angle],
       [mag |-> inp.f2_mag, angle |-> inp.f2_angle] >>

\* len(self.history.history) taken for the index of the last entry
last_index_OnePast(hist) == Len(hist)

\* len(self.history.history) - 1
last_index(hist) == Len(hist) - 1

\* the truncation written as history[:history_index], dropping the current entry
gui_history_before_add_DropsCurrent(hist, index) ==
    IF index = -1 \/ Len(hist) = 0 THEN hist ELSE PySliceTo(hist, index)

\* the truncation of calculate_and_plot left out
gui_history_before_add_NoTruncate(hist, index) == hist

\* lines 502-509 of calculate_and_plot: the list VectorHistory.add is applied
\* to, a truncated copy when the user has stepped back
gui_history_before_add(hist, index) ==
    IF index = -1 \/ Len(hist) = 0 THEN hist ELSE PySliceTo(hist, index + 1)

\* generate_solution_text divides the Python floats f1.mag, f2.mag by scale
ZeroDivisionError(scale) == scale = 0

InitApp ==
    /\ frontend \in Frontends
    /\ max_size = MaxSize
    /\ history = <<>> /\ heap = <<>> /\ now = 0
    /\ view = None /\ op = "init" /\ arg = None /\ nadds = 0
    /\ history_index = -1 /\ stored_vectors = None
    /\ last_result = None /\ show_result = FALSE
    /\ display = None /\ solution = None
    /\ NoCalculation
    /\ NoProbe
    /\ NoAnimation

Shown(kind, r) == [kind |-> kind, r |-> r]

\* ModernVectorGUI.calculate_and_plot
GuiCalculate ==
    /\ frontend = "gui"
    /\ now < MaxClock
    /\ \E inp \in TextInputs :
          LET res == add_vectors(inp.f1_mag, inp.f1_angle, inp.f2_mag, inp.f2_angle)
          IN  /\ arg' = inp
              /\ IF ~inp.text_ok \/ res.err
                 THEN \* float() or add_vectors raised ValueError: inline error
                      /\ display' = Shown("error", None)
                      /\ UNCHANGED <<history, heap, now, history_index,
                                     stored_vectors, solution>>
                 ELSE LET e == Entry(now + 1, inp.f1_mag, inp.f1_angle,
                                     inp.f2_mag, inp.f2_angle, inp.scale, res.r)
                          h == VectorHistory_add(
                                   gui_history_before_add(history, history_index),
                                   now + 1, max_size)
                      IN  /\ history' = h
                          /\ heap' = Collect(Append(heap, e), Refs(h))
                          /\ now' = now + 1
                          /\ history_index' = last_index(h)
                          /\ display' = Shown("result", res.r)
                          /\ IF ZeroDivisionError(inp.scale)
                             THEN UNCHANGED <<solution, stored_vectors>>
                             ELSE /\ solution' = [f1 |-> res.f1, f2 |-> res.f2,
                                                  r |-> res.r, scale |-> inp.scale]
                                  /\ stored_vectors' = <<res.f1, res.f2, res.r, inp.scale>>
    /\ op' = "calculate"
    /\ UNCHANGED <<max_size, view, nadds, frontend, last_result, show_result>>
    /\ UNCHANGED calcVars
    /\ UNCHANGED fnVars
    /\ UNCHANGED animVars

\* ModernVectorGUI.load_from_history(index), index already stored in history_index
load_from_history(index) ==
    IF 0 <= index /\ index < Len(history)
    THEN LET entry == heap[history[index + 1]]
             res == add_vectors(entry.f1_mag, entry.f1_angle, entry.f2_mag, entry.f2_angle)
         IN  /\ display' = Shown("result", res.r)
             /\ IF ZeroDivisionError(entry.scale)
                THEN UNCHANGED <<solution, stored_vectors>>
                ELSE /\ solution' = [f1 |-> res.f1, f2 |-> res.f2,
                                     r |-> res.r, scale |-> entry.scale]
                     /\ stored_vectors' = <<res.f1, res.f2, res.r, entry.scale>>
    ELSE UNCHANGED <<display, solution, stored_vectors>>

\* ModernVectorGUI.history_undo
GuiUndo ==
    /\ frontend = "gui"
    /\ IF history_index > 0
       THEN /\ history_index' = history_index - 1
            /\ load_from_history(history_index - 1)
       ELSE UNCHANGED <<history_index, display, solution, stored_vectors>>
    /\ op' = "undo" /\ arg' = None
    /\ UNCHANGED <<max_size, history, heap, now, view, nadds,
                   frontend, last_result, show_result>>
    /\ UNCHANGED calcVars
    /\ UNCHANGED fnVars
    /\ UNCHANGED animVars

\* ModernVectorGUI.history_redo
GuiRedo ==
    /\ frontend = "gui"
    /\ IF history_index < last_index(history)
       THEN /\ history_index' = history_index + 1
            /\ load_from_history(history_index + 1)
       ELSE UNCHANGED <<history_index, display, solution, stored_vectors>>
    /\ op' = "redo" /\ arg' = None
    /\ UNCHANGED <<max_size, history, heap, now, view, nadds,
                   frontend, last_result, show_result>>
    /\ UNCHANGED calcVars
    /\ UNCHANGED fnVars
    /\ UNCHANGED animVars

\* plot_vectors(f1_mag, f1_angle, f2_mag, f2_angle, scale, history=h)
PlotVectors ==
    /\ frontend = "lib"
    /\ now < MaxClock
    /\ \E inp \in {i \in TextInputs : i.text_ok} :
          LET res == add_vectors(inp.f1_mag, inp.f1_angle, inp.f2_mag, inp.f2_angle)
          IN  /\ arg' = inp
              /\ IF res.err
                 THEN \* ValueError propagates to the caller
                      /\ display' = Shown("error", None)
                      /\ UNCHANGED <<history, heap, now>>
                 ELSE LET e == Entry(now + 1, inp.f1_mag, inp.f1_angle,
                                     inp.f2_mag, inp.f2_angle, inp.scale, res.r)
                          h == VectorHistory_add(history, now + 1, max_size)
                      IN  /\ history' = h
                          /\ heap' = Collect(Append(heap, e), Refs(h))
                          /\ now' = now + 1
                          /\ display' = IF ZeroDivisionError(inp.scale)
                                        THEN Shown("error", None)
                                        ELSE Shown("result", res.r)
    /\ op' = "calculate"
    /\ UNCHANGED <<max_size, view, nadds, frontend, history_index, stored_vectors,
                   last_result, show_result, solution>>
    /\ UNCHANGED calcVars
    /\ UNCHANGED fnVars
    /\ UNCHANGED animVars

\* streamlit_app_animated.py, "if calculate_btn:" branch
AnimCalculate ==
    /\ frontend = "animated"
    /\ now < MaxClock
    /\ \E inp \in WidgetInputs :
          LET res == add_vectors(inp.f1_mag, inp.f1_angle, inp.f2_mag, inp.f2_angle)
          IN  /\ arg' = inp
              /\ IF res.err
                 THEN /\ display' = Shown("error", None)
                      /\ UNCHANGED <<history, heap, now, last_result, show_result>>
                 ELSE LET e == Entry(now + 1, inp.f1_mag, inp.f1_angle,
                                     inp.f2_mag, inp.f2_angle, inp.scale, res.r)
                          h == VectorHistory_add(history, now + 1, max_size)
                      IN  /\ history' = h
                          /\ heap' = Collect(Append(heap, e), Refs(h))
                          /\ now' = now + 1
                          /\ last_result' = <<res.f1, res.f2, res.r, inp.scale>>
                          /\ show_result' = TRUE
                          /\ display' = Shown("result", res.r)
    /\ op' = "calculate"
    /\ UNCHANGED <<max_size, view, nadds, frontend, history_index,
                   stored_vectors, solution>>
    /\ UNCHANGED calcVars
    /\ UNCHANGED fnVars
    /\ UNCHANGED animVars

\* streamlit_app.py, "if calculate_btn:" branch with 2 or 3 forces
StreamlitCalculate ==
    /\ frontend = "streamlit"
    /\ now < MaxClock
    /\ \E inp \in WidgetInputs, extra \in {<<>>, <<ExtraForce>>} :
          LET fs == InputForces(inp) \o extra
              res == streamlit_sum(fs)
              e == Entry(now + 1, fs[1].mag, fs[1].angle, fs[2].mag, fs[2].angle,
                         inp.scale, res.r)
              h == VectorHistory_add(history, now + 1, max_size)
          IN  /\ arg' = inp
              /\ history' = h
              /\ heap' = Collect(Append(heap, e), Refs(h))
              /\ now' = now + 1
              /\ last_result' = <<res.vector_list, res.r, inp.scale>>
              /\ show_result' = TRUE
              /\ display' = Shown("result", res.r)
    /\ op' = "calculate"
    /\ UNCHANGED <<max_size, view, nadds, frontend, history_index,
                   stored_vectors, solution>>
    /\ UNCHANGED calcVars
    /\ UNCHANGED fnVars
    /\ UNCHANGED animVars

\* _hide_result leaving session_state.show_result as it was
hide_result_KeepsResult(shown) == shown

\* _hide_result (and the last statement of _apply_inline_changes):
\* session_state.show_result = False
hide_result(shown) == FALSE

\* the branches of a run without the Calculate button: the stored result
\* (r is last_result[2] in the animated app, last_result[1] in streamlit_app)
\* when show_result is set and there is one, the live preview otherwise
render(front, shown, last) ==
    IF shown /\ last # None
    THEN Shown("redisplay", IF front = "animated" THEN last[3] ELSE last[2])
    ELSE Shown("preview", None)

\* a Streamlit rerun without the Calculate button and without an input
\* change (Show Steps, theme, ...)
StreamlitRerun ==
    /\ frontend \in {"animated", "streamlit"}
    /\ display' = render(frontend, show_result, last_result)
    /\ op' = "redisplay" /\ arg' = None
    /\ UNCHANGED <<max_size, history, heap, now, view, nadds, frontend,
                   history_index, stored_vectors, last_result, show_result, solution>>
    /\ UNCHANGED calcVars
    /\ UNCHANGED fnVars
    /\ UNCHANGED animVars

\* on_change=_hide_result of an input widget (or Apply Inline Changes), then
\* the rerun it triggers
StreamlitChangeInput ==
    /\ frontend \in {"animated", "streamlit"}
    /\ show_result' = hide_result(show_result)
    /\ display' = render(frontend, show_result', last_result)
    /\ op' = "input_change" /\ arg' = None
    /\ UNCHANGED <<max_size, history, heap, now, view, nadds, frontend,
                   history_index, stored_vectors, last_result, solution>>
    /\ UNCHANGED calcVars
    /\ UNCHANGED fnVars
    /\ UNCHANGED animVars

Next ==
    \/ GuiCalculate
    \/ GuiUndo
    \/ GuiRedo
    \/ PlotVectors
    \/ AnimCalculate
    \/ StreamlitCalculate
    \/ StreamlitRerun
    \/ StreamlitChangeInput

Spec == InitApp /\ [][Next]_vars


(***************************************************************************)
(* Claims about the front-ends and the log (checked under Spec).           *)
(***************************************************************************)
\* the request parses and carries no negative magnitude: the calculation
\* yields a resultant
Successful(inp) == inp.text_ok /\ Val(inp.f1_mag) >= 0 /\ Val(inp.f2_mag) >= 0

\* the entries present before and after a step have the same field values
EntriesKept == \A id \in Refs(history) \cap Refs(history') : heap'[id] = heap[id]

\* C4: a successful calculation adds exactly one entry to the log; a request
\* rejected for a negative magnitude (or unparsable text) leaves the log
\* contents and history_index as they were; undo, redo, re-display and an
\* input change never append.
C4_OneEntryPerCalculation ==
    [][/\ (op' = "calculate" /\ Successful(arg')) =>
              /\ now' = now + 1
              /\ Refs(history') \ Refs(history) = {now'}
              /\ history'[Len(history')] = now'
              /\ heap'[now'].f1_mag = arg'.f1_mag /\ heap'[now'].f2_mag = arg'.f2_mag
              /\ heap'[now'].f1_angle = arg'.f1_angle /\ heap'[now'].f2_angle = arg'.f2_angle
              /\ heap'[now'].scale = arg'.scale
       /\ (op' = "calculate" /\ ~Successful(arg')) =>
              /\ history' = history /\ heap' = heap /\ LogContents' = LogContents
              /\ history_index' = history_index
       /\ (op' \in {"undo", "redo", "redisplay", "input_change"}) =>
              /\ history' = history /\ heap' = heap /\ LogContents' = LogContents
      ]_vars

\* C4 witness: the desktop GUI has just rejected a negative magnitude while
\* the log held entries and history_index pointed at one of them.
C4_Witness_Rejected ==
    /\ frontend = "gui" /\ op = "calculate"
    /\ arg.text_ok /\ ~Successful(arg)
    /\ Len(history) >= 2 /\ history_index = 0

\* C10 as stated: recorded entries are never modified, and an entry leaves
\* the log only by eviction of the oldest entries when an add overflows the
\* bound (no front-end calls clear); the newest entry is never removed.
C10_AppendOnly ==
    [][/\ EntriesKept
       /\ Len(history) > 0 => history[Len(history)] \in Refs(history')
       /\ \/ history' = history
          \/ \E k \in 0..Len(history) :
                /\ history' = Append(SubSeq(history, k + 1, Len(history)), now')
                /\ k > 0 => Len(history') = max_size
      ]_vars

\* C10 amended: recorded entries are never modified; an entry leaves the log
\* only by eviction of the oldest entries when an add overflows the bound,
\* or, in the desktop GUI, when a new calculation made after undo discards
\* the entries after history_index (the newest included).  In the other
\* front-ends no operation removes the newest entry.
C10_AppendOnlyExceptUndoneTail ==
    [][/\ EntriesKept
       /\ (frontend # "gui" /\ Len(history) > 0) => history[Len(history)] \in Refs(history')
       /\ \/ history' = history
          \/ LET j == IF frontend = "gui" /\ history_index >= 0
                      THEN history_index + 1 ELSE Len(history)
             IN  \E k \in 0..j :
                    /\ history' = Append(SubSeq(history, k + 1, j), now')
                    /\ k > 0 => Len(history') = max_size
      ]_vars

\* C10 witness: the desktop GUI made a new calculation after undo, and the
\* entry recorded before the new one is no longer in the log.
C10_Witness_Truncated ==
    /\ frontend = "gui" /\ op = "calculate" /\ Successful(arg)
    /\ Len(history) >= 2
    /\ history[Len(history)] > history[Len(history) - 1] + 1


\* the front-end is one of the two Streamlit applications
IsStreamlit == frontend \in {"animated", "streamlit"}

\* the display shows a resultant
ShowsResult(d) == d.kind \in {"result", "redisplay"}

\* one step of a Streamlit front-end keeps the resultant behind Calculate
ResultGated ==
    /\ ShowsResult(display') => show_result'
    /\ (~show_result /\ show_result') =>
          (op' = "calculate" /\ display' = Shown("result", display'.r)
             /\ display'.r # None /\ Len(history') > 0)
    /\ op' = "input_change" => (~show_result' /\ display' = Shown("preview", None))
    /\ (~show_result /\ op' # "calculate") => (~show_result' /\ ~ShowsResult(display'))

\* C18: in the Streamlit front-ends the result view is shown only while
\* show_result is true; show_result becomes true only by a successful
\* Calculate; every change of an input resets it, and from then on every
\* render is the live preview without the resultant until Calculate succeeds
\* again.
C18_ResultOnlyAfterCalculate ==
    [][IsStreamlit => ResultGated]_vars

\* C18 witness: a result was calculated and shown, then an input changed and
\* the live preview replaced it.
C18_Witness_Hidden ==
    /\ frontend \in {"animated", "streamlit"}
    /\ op = "input_change" /\ last_result # None
    /\ ~show_result /\ display = Shown("preview", None)

\* the list calculate_and_plot leaves in the log when it records entry id:
\* the entries up to history_index, then the new one, cut to the newest size
AfterUndoneTail(hist, index, id, size) ==
    LET kept == IF index = -1 THEN hist ELSE SubSeq(hist, 1, index + 1)
        a == Append(kept, id)
    IN  IF Len(a) > size THEN SubSeq(a, Len(a) - size + 1, Len(a)) ELSE a

\* one step of the desktop GUI: calculating after undo drops the undone tail
\* and a redo straight after a calculation changes nothing
UndoneTailDropped ==
    /\ (op' = "calculate" /\ Successful(arg')) =>
          /\ history' = AfterUndoneTail(history, history_index, now', max_size)
          /\ history_index' = Len(history') - 1
          /\ history'[history_index' + 1] = now'
    /\ (op = "calculate" /\ Successful(arg) /\ op' = "redo") =>
          UNCHANGED <<history, heap, history_index, display, solution, stored_vectors>>

\* C23: in the desktop GUI a successful calculation made after undo discards
\* every entry after history_index, appends the new entry as the last entry
\* and sets history_index to it, so that a redo made straight after it
\* changes nothing.
C23_CalculateAfterUndo ==
    [][(frontend = "gui") => UndoneTailDropped]_vars

\* C23 witness: a calculation was made while history_index was not at the
\* last entry; the entries after it are gone and history_index is at the new
\* last entry.
C23_Witness_TailDropped ==
    /\ frontend = "gui" /\ op = "calculate" /\ Successful(arg)
    /\ history_index = Len(history) - 1 /\ history[Len(history)] = now
    /\ \E id \in 1..now : id \notin Refs(history) /\ \E older \in Refs(history) : older < id

\* one step of the desktop GUI: undo at the first entry and redo at the last
\* entry change nothing
EndsHold ==
    /\ (op' = "undo" /\ history_index = 0) =>
          UNCHANGED <<history, heap, history_index, display, solution, stored_vectors>>
    /\ (op' = "redo" /\ history_index = Len(history) - 1) =>
          UNCHANGED <<history, heap, history_index, display, solution, stored_vectors>>

\* C26: in the desktop GUI history_index is -1 exactly when the log is empty
\* and otherwise 0 <= history_index <= len(log) - 1, after every sequence of
\* calculate, undo and redo and also when the full log evicts entries; undo
\* at index 0 and redo at the last index change nothing.
C26_IndexInRange ==
    [](frontend = "gui" =>
          /\ (history_index = -1) <=> (Len(history) = 0)
          /\ Len(history) > 0 => (0 <= history_index /\ history_index <= Len(history) - 1))
    /\ [][(frontend = "gui") => EndsHold]_vars

\* C26 witness: the log is full, entries have been evicted, and undo then
\* redo has brought history_index back to the last entry.
C26_Witness_FullLog ==
    /\ frontend = "gui" /\ op = "redo"
    /\ Len(history) = max_size /\ now > max_size
    /\ history_index = Len(history) - 1

\* the resultant an entry records is the sum of the two vectors it records
SelfConsistent(entry) ==
    LET fs == << [mag |-> entry.f1_mag, angle |-> entry.f1_angle],
                 [mag |-> entry.f2_mag, angle |-> entry.f2_angle] >>
    IN  \/ SameVector(entry.result,
                      add_vectors(entry.f1_mag, entry.f1_angle,
                                  entry.f2_mag, entry.f2_angle).r)
        \/ SameVector(entry.result, streamlit_sum(fs).r)

\* C27: in every front-end the result recorded in a history entry is the
\* vector sum of the inputs recorded in that entry, whatever the number of
\* input vectors of the calculation.
C27_EntriesSelfConsistent ==
    \A id \in Refs(history) : SelfConsistent(heap[id])

\* the vectors the plot holds are those of the entry at history_index
StoredMatchesEntry ==
    history_index >= 0 =>
        /\ stored_vectors # None
        /\ LET entry == heap[history[history_index + 1]]
           IN  /\ stored_vectors[1].mag = entry.f1_mag
               /\ stored_vectors[1].angle = entry.f1_angle
               /\ stored_vectors[2].mag = entry.f2_mag
               /\ stored_vectors[2].angle = entry.f2_angle
               /\ stored_vectors[4] = entry.scale

\* C28: a calculation of the desktop GUI is atomic for every numeric scale,
\* 0 included: it either records the entry, moves history_index to it, shows
\* the result and updates stored_vectors, or changes none of the log,
\* history_index and stored_vectors; the entry at history_index never
\* describes other vectors than stored_vectors.
C28_CalculationAtomic ==
    [](frontend = "gui" => StoredMatchesEntry)
    /\ [][(frontend = "gui" /\ op' = "calculate" /\ arg'.text_ok) =>
             \/ UNCHANGED <<history, heap, history_index, stored_vectors>>
             \/ /\ history'[Len(history')] = now' /\ history_index' = Len(history') - 1
                /\ stored_vectors' # None /\ stored_vectors'[4] = arg'.scale
                /\ display' = Shown("result", stored_vectors'[3])]_vars

(***************************************************************************)
(* vector_addition.py: quadrant, relative_angle, contribution_note and     *)
(* generate_solution_text.  Angles are in thousandths of a degree; the     *)
(* text is modelled by the words and notes it chooses, not its layout.     *)
(***************************************************************************)
PERPENDICULAR_THRESHOLD == 5000     \* 5 degrees
RIGHT_ANGLE == 90000                \* 90 degrees
FullTurn == Deg(360)

\* np.isclose(a, b): abs(a - b) <= atol + rtol * abs(b), atol = 1e-8 and
\* rtol = 1e-5, for a and b in thousandths of a degree
np_isclose(a, b) == Abs(a - b) <= 4 /\ Abs(a - b) * 100000 <= 1 + Abs(b)

quadrant(angle_deg) ==
    LET a == angle_deg % FullTurn
    IN  IF np_isclose(a, 0) \/ np_isclose(a, Deg(360)) THEN "+x axis"
        ELSE IF np_isclose(a, Deg(90)) THEN "+y axis"
        ELSE IF np_isclose(a, Deg(180)) THEN "-x axis"
        ELSE IF np_isclose(a, Deg(270)) THEN "-y axis"
        ELSE IF 0 < a /\ a < Deg(90) THEN "Q1"
        ELSE IF Deg(90) < a /\ a < Deg(180) THEN "Q2"
        ELSE IF Deg(180) < a /\ a < Deg(270) THEN "Q3"
        ELSE "Q4"

\* relative_angle without the fold of separations above 180
relative_angle_NoFold(a, b) == (b - a) % FullTurn

relative_angle(a, b) ==
    LET d == (b - a) % FullTurn
    IN  IF d <= Deg(180) THEN d ELSE FullTurn - d

\* contribution_note comparing a and b with their signs
contribution_note_Signed(a, b, axis) ==
    IF Val(FAdd(a, b)) = 0
    THEN [note |-> "No net component", axis |-> axis]
    ELSE [note |-> IF Val(a) > Val(b) THEN "F1 dominates"
                   ELSE IF Val(b) > Val(a) THEN "F2 dominates"
                   ELSE "F1 and F2 equally dominates",
          axis |-> axis]

contribution_note(a, b, axis) ==
    LET sa == FAbs(a)
        sb == FAbs(b)
    IN  IF Val(FAdd(sa, sb)) = 0
        THEN [note |-> "No net component", axis |-> axis]
        ELSE [note |-> IF Val(sa) > Val(sb) THEN "F1 dominates"
                       ELSE IF Val(sb) > Val(sa) THEN "F2 dominates"
                       ELSE "F1 and F2 equally dominates",
              axis |-> axis]

\* the words generate_solution_text chooses, or the exception it raises
\* the relation word of step 1
relation(angle_between) ==
    IF angle_between < RIGHT_ANGLE THEN "reinforce each other"
    ELSE IF Abs(angle_between - RIGHT_ANGLE) <= PERPENDICULAR_THRESHOLD
         THEN "are nearly perpendicular"
         ELSE "partly cancel each other"

\* the explanatory line with the perpendicular test made first
explanation_PerpendicularFirst(angle_between) ==
    IF Abs(angle_between - RIGHT_ANGLE) <= PERPENDICULAR_THRESHOLD
    THEN "(~ 90 means forces are perpendicular)"
    ELSE IF angle_between < RIGHT_ANGLE
         THEN "(< 90 means forces pull in similar directions)"
         ELSE "(> 90 means forces pull in opposite directions)"

\* the explanatory line printed under the relation
explanation(angle_between) ==
    IF angle_between < RIGHT_ANGLE
    THEN "(< 90 means forces pull in similar directions)"
    ELSE IF Abs(angle_between - RIGHT_ANGLE) <= PERPENDICULAR_THRESHOLD
         THEN "(~ 90 means forces are perpendicular)"
         ELSE "(> 90 means forces pull in opposite directions)"

generate_solution_text(f1, f2, r, scale) ==
    IF scale = 0 THEN [raised |-> "ZeroDivisionError"]
    ELSE
    LET angle_between == relative_angle(f1.angle, f2.angle)
        near_vertical == r.x.m < ZERO_THRESHOLD
        near_horizontal == r.y.m < ZERO_THRESHOLD
    IN  [raised |-> "",
         q1 |-> quadrant(f1.angle), q2 |-> quadrant(f2.angle), qr |-> quadrant(r.angle),
         angle_between |-> angle_between,
         relation |-> relation(angle_between),
         explanation |-> explanation(angle_between),
         x_note |-> contribution_note(f1.x, f2.x, "horizontal"),
         y_note |-> contribution_note(f1.y, f2.y, "vertical"),
         total_x |-> IF Val(r.x) > 0 THEN "(positive = net push to the right)"
                     ELSE IF Val(r.x) < 0 THEN "(negative = net push to the left)"
                     ELSE "",
         total_y |-> IF Val(r.y) > 0 THEN "(positive = net push upward)"
                     ELSE IF Val(r.y) < 0 THEN "(negative = net push downward)"
                     ELSE "",
         step4_note |-> IF near_vertical THEN "NOTE: x~0, so force is nearly vertical"
                        ELSE IF near_horizontal THEN "NOTE: y~0, so force is nearly horizontal"
                        ELSE "",
         direction |-> IF 0 <= r.angle /\ r.angle < Deg(90) THEN "(up and to the right)"
                       ELSE IF Deg(90) <= r.angle /\ r.angle < Deg(180) THEN "(up and to the left)"
                       ELSE IF -Deg(180) <= r.angle /\ r.angle < -Deg(90) THEN "(down and to the left)"
                       ELSE "(down and to the right)"]

(***************************************************************************)
(* vector_addition.py, plot_vectors: the axis limits; streamlit_app.py:    *)
(* the angle arcs of the tip-to-tail layout.                               *)
(***************************************************************************)
PADDING_RATIO == 30                 \* 0.3, in hundredths
MIN_NEGATIVE_SPACE_RATIO == 15      \* 0.15, in hundredths

\* -a and a - b
FNeg(a) == [s |-> 1 - a.s, m |-> a.m]
FSub(a, b) == FAdd(a, FNeg(b))

\* a * (num / den) for a decimal constant num / den
FMulDec(a, num, den) == [s |-> a.s, m |-> RoundP(RoundDiv(a.m * num, den))]

\* Python min / max of a list: the first of the smallest / largest elements
py_min(vals) ==
    LET i == CHOOSE k \in 1..Len(vals) :
                /\ \A j \in 1..Len(vals) : Val(vals[k]) <= Val(vals[j])
                /\ \A j \in 1..(k - 1) : Val(vals[j]) > Val(vals[k])
    IN  vals[i]
py_max(vals) ==
    LET i == CHOOSE k \in 1..Len(vals) :
                /\ \A j \in 1..Len(vals) : Val(vals[k]) >= Val(vals[j])
                /\ \A j \in 1..(k - 1) : Val(vals[j]) < Val(vals[k])
    IN  vals[i]

\* the arguments of ax.set_xlim / ax.set_ylim for the observed values vals
axis_limits(vals, max_val) ==
    LET padding == FMulDec(max_val, PADDING_RATIO, 100)
        min_neg_space == FMulDec(max_val, MIN_NEGATIVE_SPACE_RATIO, 100)
    IN  [lo |-> py_min(<<FSub(py_min(vals), padding), FNeg(min_neg_space)>>),
         hi |-> FAdd(py_max(vals), padding)]

plot_limits(f1, f2, r) ==
    LET max_val == plot_max_val(f1, f2, r)
    IN  [xlim |-> axis_limits(<<F(0), f1.x, f2.x, r.x>>, max_val),
         ylim |-> axis_limits(<<F(0), f1.y, f2.y, r.y>>, max_val)]

\* 0.8 + i * 0.2, in tenths
TipToTailFactor(i) == RoundP(8 + RoundP(i * 2))

\* max_val of the Streamlit plot: max of 0 and every |x|, |y|
streamlit_max_val(vl, r) ==
    py_max(<<F(0)>> \o [k \in 1..(2 * Len(vl)) |->
                          IF k % 2 = 1 THEN FAbs(vl[(k + 1) \div 2].x)
                          ELSE FAbs(vl[k \div 2].y)]
               \o <<FAbs(r.x), FAbs(r.y)>>)

\* the tip-to-tail arcs with one radius for every vector
tip_to_tail_arcs_SameRadius(vl, max_val) ==
    [k \in 1..Len(vl) |->
        IF Abs(vl[k].angle) > 100
        THEN [arc_radius |-> FMulDec(FMulDec(max_val, 1, 10), TipToTailFactor(0), 10)]
        ELSE None]

\* the arcs of the tip-to-tail layout of vector_list vl: for the vector of
\* index i = k - 1, arc_radius = max_val * 0.1 * (0.8 + i * 0.2) when
\* abs(v.angle) > 0.1, and no arc otherwise
tip_to_tail_arcs(vl, max_val) ==
    [k \in 1..Len(vl) |->
        IF Abs(vl[k].angle) > 100
        THEN [arc_radius |-> FMulDec(FMulDec(max_val, 1, 10), TipToTailFactor(k - 1), 10)]
        ELSE None]

\* the position reached after the first k vectors of vl (cumulative_x,
\* cumulative_y after k rounds of the loop)
cumulative(vl, k) ==
    [x |-> Accumulate(F(0), [i \in 1..k |-> vl[i].x], 1),
     y |-> Accumulate(F(0), [i \in 1..k |-> vl[i].y], 1)]

\* x_vals / y_vals of the loop "x_vals.extend([v.x, cumulative_x])": the
\* component of every vector and the position of its tail
loop_vals(vl, axis) ==
    [k \in 1..(2 * Len(vl)) |->
        IF k % 2 = 1
        THEN IF axis = "x" THEN vl[(k + 1) \div 2].x ELSE vl[(k + 1) \div 2].y
        ELSE IF axis = "x" THEN cumulative(vl, k \div 2 - 1).x
             ELSE cumulative(vl, k \div 2 - 1).y]

Methods == {"Parallelogram", "Polygon (Tip-to-Tail)"}

\* x_vals / y_vals of the calculate branch: [0, r.x] and the loop values
result_vals(vl, r, axis) ==
    <<F(0), IF axis = "x" THEN r.x ELSE r.y>> \o loop_vals(vl, axis)

\* x_vals / y_vals of the live preview: [0] and the loop values
preview_vals(vl, axis) == <<F(0)>> \o loop_vals(vl, axis)

\* max_val of the live preview: max of every |x|, |y| and 1e-6
preview_max_val(vl) ==
    py_max([k \in 1..Len(vl) |-> FAbs(vl[k].x)] \o [k \in 1..Len(vl) |-> FAbs(vl[k].y)]
           \o <<F(ZERO_THRESHOLD)>>)

\* padding and the arguments of ax.set_xlim / ax.set_ylim in streamlit_app.py
streamlit_limits(x_vals, y_vals, max_val) ==
    [xlim |-> axis_limits(x_vals, max_val),
     ylim |-> axis_limits(y_vals, max_val),
     padding |-> FMulDec(max_val, PADDING_RATIO, 100)]

\* the end points of the arrows drawn tip-to-tail
tip_to_tail_points(vl) == {cumulative(vl, k) : k \in 0..Len(vl)}

\* the end points of the arrows the calculate branch draws
result_points(method, vl, r) ==
    IF method = "Parallelogram"
    THEN IF Len(vl) = 2
         THEN {[x |-> F(0), y |-> F(0)], [x |-> vl[1].x, y |-> vl[1].y],
               [x |-> vl[2].x, y |-> vl[2].y], [x |-> r.x, y |-> r.y],
               [x |-> FAdd(vl[1].x, vl[2].x), y |-> FAdd(vl[1].y, vl[2].y)]}
         ELSE {[x |-> F(0), y |-> F(0)]}
    ELSE tip_to_tail_points(vl) \cup {[x |-> r.x, y |-> r.y]}

\* the end points of the arrows the live preview draws
preview_points(method, vl) ==
    IF method = "Parallelogram"
    THEN {[x |-> F(0), y |-> F(0)]} \cup {[x |-> vl[k].x, y |-> vl[k].y] : k \in 1..2}
    ELSE tip_to_tail_points(vl)

(***************************************************************************)
(* One two-force request followed through the Calculate branch, the        *)
(* solution text and the plot.  Init draws the two forces; Calculate is    *)
(* run for them under changing scale and quantity settings, and            *)
(* generate_solution_text and the plot layout are applied to its result.   *)
(***************************************************************************)
TextMags == {F(0), F(24), F(40)}
TextAngles == {Deg(0), Deg(87), Deg(90), Deg(180), Deg(-90), Deg(450)}
TextScales == {5, 10}
Quantities == {"Force", "Velocity"}

\* units_map.get(quantity, "N")
units_map(quantity) ==
    CASE quantity = "Force" -> "N"
      [] quantity = "Displacement" -> "m"
      [] quantity = "Velocity" -> "m/s"
      [] quantity = "Acceleration" -> "m/s2"
      [] OTHER -> "N"

\* the Calculate branch with the magnitudes divided by the scale first
calculate_branch_InCm(f1_mag, f1_angle, f2_mag, f2_angle, scale, quantity) ==
    LET res == add_vectors(F(Val(f1_mag) \div scale), f1_angle,
                           F(Val(f2_mag) \div scale), f2_angle)
    IN  [err |-> FALSE, res |-> res, scale |-> scale, unit |-> units_map(quantity),
         entry |-> Entry(0, f1_mag, f1_angle, f2_mag, f2_angle, scale, res.r)]

\* the Calculate branch: add_vectors, then the history entry of the result;
\* scale and unit go to the entry and to the formatting of the output only
calculate_branch(f1_mag, f1_angle, f2_mag, f2_angle, scale, quantity) ==
    LET res == add_vectors(f1_mag, f1_angle, f2_mag, f2_angle)
    IN  IF res.err THEN res
        ELSE [err |-> FALSE, res |-> res, scale |-> scale, unit |-> units_map(quantity),
              entry |-> Entry(0, f1_mag, f1_angle, f2_mag, f2_angle, scale, res.r)]

InitText ==
    /\ forces \in [1..2 -> [mag : TextMags, angle : TextAngles]]
    /\ forces_p = None /\ av = None /\ sl = None /\ av_p = None /\ sl_p = None
    /\ arcs = None
    /\ max_size = 1 /\ history = <<>> /\ heap = <<>> /\ now = 0
    /\ view = None /\ op = "init" /\ arg = 0 /\ nadds = 0
    /\ NoSession
    /\ NoProbe
    /\ NoAnimation

\* Calculate clicked, and clicked once more after the settings were changed
Calculate ==
    /\ calc # None => calc.previous = None
    /\ \E scale \in TextScales, quantity \in Quantities :
          LET c == calculate_branch(forces[1].mag, forces[1].angle,
                                    forces[2].mag, forces[2].angle, scale, quantity)
          IN  /\ calc # None => (calc.scale # scale \/ calc.unit # units_map(quantity))
              /\ calc' = c @@ [previous |-> IF calc = None THEN None
                                            ELSE [scale |-> calc.scale, unit |-> calc.unit]]
    /\ text' = None /\ plot' = None
    /\ UNCHANGED <<probe, out>>
    /\ UNCHANGED histVars
    /\ UNCHANGED calcVars
    /\ UNCHANGED appVars
    /\ UNCHANGED animVars

\* the solution text of the latest calculation
WriteSolution ==
    /\ calc # None /\ text = None
    /\ text' = generate_solution_text(calc.res.f1, calc.res.f2, calc.res.r, calc.scale)
    /\ UNCHANGED <<probe, out, calc, plot>>
    /\ UNCHANGED histVars
    /\ UNCHANGED calcVars
    /\ UNCHANGED appVars
    /\ UNCHANGED animVars

\* the plot of the latest calculation: max_val, angle arcs and axis limits
DrawPlot ==
    /\ calc # None /\ plot = None
    /\ plot' = [max_val |-> plot_max_val(calc.res.f1, calc.res.f2, calc.res.r),
                arcs |-> plot_arcs(calc.res.f1, calc.res.f2, calc.res.r),
                limits |-> plot_limits(calc.res.f1, calc.res.f2, calc.res.r)]
    /\ UNCHANGED <<probe, out, calc, text>>
    /\ UNCHANGED histVars
    /\ UNCHANGED calcVars
    /\ UNCHANGED appVars
    /\ UNCHANGED animVars

NextText ==
    \/ Calculate
    \/ WriteSolution
    \/ DrawPlot

SpecText == InitText /\ [][NextText]_vars

(***************************************************************************)
(* Claims about one request (checked under SpecText).                      *)
(***************************************************************************)
\* C11: calculations of the same magnitudes and angles under different
\* drawing scales and quantity/unit selections return identical components
\* and an identical resultant, and record that resultant in the history entry.
C11_ScaleAndUnitCosmetic ==
    [][(calc # None /\ calc' # None) =>
          /\ calc'.res = calc.res
          /\ calc'.entry.result = calc.entry.result
          /\ calc'.entry.result = calc'.res.r
      ]_vars

\* C11 witness: two non-zero forces calculated a second time with another
\* scale and another unit.
C11_Witness_Recalculated ==
    /\ calc # None /\ calc.previous # None
    /\ calc.previous.scale # calc.scale /\ calc.previous.unit # calc.unit
    /\ Val(forces[1].mag) > 0 /\ Val(forces[2].mag) > 0

\* the magnitude and the angle recomputed from the components of v
Recomputed(v) ==
    [mag |-> FSqrtSumSq(v.x, v.y), angle |-> np_arctan2_deg(v.y, v.x)]

\* the difference of two angles as a signed angle in (-180, 180]
AngleError(a, b) ==
    LET d == (a - b) % FullTurn
    IN  IF d <= Deg(180) THEN d ELSE d - FullTurn

\* C15 as stated: for both input records add_vectors returns, sqrt(x^2 + y^2)
\* equals the stored magnitude and atan2(y, x) equals the stored angle modulo
\* 360, zero magnitudes included.
C15_RoundTrip ==
    calc # None =>
        \A v \in {calc.res.f1, calc.res.f2} :
            /\ Val(Recomputed(v).mag) = Val(v.mag)
            /\ AngleError(Recomputed(v).angle, v.angle) = 0

\* C15 amended: the recomputed magnitude agrees with the stored one up to
\* rounding (a quantum plus a few units in the last place); for a magnitude
\* above zero the recomputed angle agrees with the stored one modulo 360 up
\* to the angle one quantum subtends at that length.  The angle of a
\* zero-magnitude record is not recoverable from its components.
C15_RoundTripNonZero ==
    calc # None =>
        \A v \in {calc.res.f1, calc.res.f2} :
            /\ Abs(Val(Recomputed(v).mag) - Val(v.mag)) * Pow2(Precision)
                  <= 4 * v.mag.m + Pow2(Precision)
            /\ v.mag.m > 0 =>
                  Abs(AngleError(Recomputed(v).angle, v.angle)) <= Deg(58) \div v.mag.m

\* C15 witness: a non-zero force at 450 degrees whose recomputed angle is 90,
\* next to a zero force at a non-zero angle.
C15_Witness_Normalised ==
    /\ calc # None
    /\ calc.res.f1.mag.m > 0 /\ calc.res.f1.angle = Deg(450)
    /\ Recomputed(calc.res.f1).angle = Deg(90)
    /\ calc.res.f2.mag.m = 0 /\ calc.res.f2.angle = Deg(90)

\* C16: on each axis the lower limit of the plot is strictly below 0 and the
\* upper limit strictly above the lower one, and the limits enclose the
\* origin.
C16_NegativeMargin ==
    plot # None =>
        \A lim \in {plot.limits.xlim, plot.limits.ylim} :
            /\ Val(lim.lo) < 0
            /\ Val(lim.hi) > Val(lim.lo)
            /\ Val(lim.lo) <= 0 /\ 0 <= Val(lim.hi)

(***************************************************************************)
(* The helper functions of the solution text as functions of their         *)
(* arguments.  Init draws a probe: two angles, two component values, or a  *)
(* tip-to-tail layout; the actions apply the functions to it.              *)
(***************************************************************************)
ProbeAngles ==
    {Deg(0), 1, 3, Deg(10), Deg(30), 89999, Deg(90), 90001, Deg(120),
     179999, Deg(180), 180001, 180002, 269998, Deg(270), 270002, 270003,
     Deg(350), 359996, 359997, Deg(360), -3, -Deg(90), -Deg(350), Deg(450), Deg(720)}
ProbeValues == {F(-5), NegZero, F(0), F(5), F(9)}
LayoutAngles == {Deg(0), Deg(90), Deg(180)}
LayoutMags == {F(96), F(160)}

Probes ==
    [kind : {"angles"}, a : ProbeAngles, b : ProbeAngles]
    \cup [kind : {"components"}, u : ProbeValues, v : ProbeValues]
    \cup [kind : {"layout"},
          forces : [1..MaxForces -> [mag : LayoutMags, angle : LayoutAngles]]]

InitFns ==
    /\ probe \in Probes
    /\ out = None /\ calc = None /\ text = None /\ plot = None
    /\ NoCalculation
    /\ max_size = 1 /\ history = <<>> /\ heap = <<>> /\ now = 0
    /\ view = None /\ op = "init" /\ arg = 0 /\ nadds = 0
    /\ NoSession
    /\ NoAnimation

ApplyRelativeAngle ==
    /\ probe.kind = "angles"
    /\ out' = [fn |-> "relative_angle", val |-> relative_angle(probe.a, probe.b)]
    /\ UNCHANGED <<probe, calc, text, plot>>
    /\ UNCHANGED histVars
    /\ UNCHANGED calcVars
    /\ UNCHANGED appVars
    /\ UNCHANGED animVars

ApplyQuadrant ==
    /\ probe.kind = "angles"
    /\ out' = [fn |-> "quadrant", val |-> quadrant(probe.a)]
    /\ UNCHANGED <<probe, calc, text, plot>>
    /\ UNCHANGED histVars
    /\ UNCHANGED calcVars
    /\ UNCHANGED appVars
    /\ UNCHANGED animVars

ApplyContributionNote ==
    /\ probe.kind = "components"
    /\ \E axis \in {"horizontal", "vertical"} :
          out' = [fn |-> "contribution_note",
                  val |-> contribution_note(probe.u, probe.v, axis)]
    /\ UNCHANGED <<probe, calc, text, plot>>
    /\ UNCHANGED histVars
    /\ UNCHANGED calcVars
    /\ UNCHANGED appVars
    /\ UNCHANGED animVars

\* the arcs of the Streamlit tip-to-tail plot of the probe's forces
ApplyTipToTailArcs ==
    /\ probe.kind = "layout" /\ out = None
    /\ \E sum \in {streamlit_sum(probe.forces)} :
       \E max_val \in {streamlit_max_val(sum.vector_list, sum.r)} :
          out' = [fn |-> "tip_to_tail_arcs", max_val |-> max_val,
                  val |-> tip_to_tail_arcs(sum.vector_list, max_val)]
    /\ UNCHANGED <<probe, calc, text, plot>>
    /\ UNCHANGED histVars
    /\ UNCHANGED calcVars
    /\ UNCHANGED appVars
    /\ UNCHANGED animVars

\* the arcs of plot_vectors for the first two forces of the probe
ApplyPlotArcs ==
    /\ probe.kind = "layout" /\ out = None
    /\ \E res \in {add_vectors(probe.forces[1].mag, probe.forces[1].angle,
                                probe.forces[2].mag, probe.forces[2].angle)} :
          out' = [fn |-> "plot_arcs",
                  max_val |-> plot_max_val(res.f1, res.f2, res.r),
                  val |-> plot_arcs(res.f1, res.f2, res.r)]
    /\ UNCHANGED <<probe, calc, text, plot>>
    /\ UNCHANGED histVars
    /\ UNCHANGED calcVars
    /\ UNCHANGED appVars
    /\ UNCHANGED animVars

\* the plot of the calculate branch of streamlit_app.py for the first n
\* forces of the probe
ApplyResultLimits ==
    /\ probe.kind = "layout" /\ out = None
    /\ \E n \in 2..MaxForces, method \in Methods :
       \E sum \in {streamlit_sum(SubSeq(probe.forces, 1, n))} :
       \E max_val \in {streamlit_max_val(sum.vector_list, sum.r)},
          x_vals \in {result_vals(sum.vector_list, sum.r, "x")},
          y_vals \in {result_vals(sum.vector_list, sum.r, "y")} :
          out' = [fn |-> "result_limits", method |-> method,
                  val |-> streamlit_limits(x_vals, y_vals, max_val),
                  points |-> result_points(method, sum.vector_list, sum.r)]
    /\ UNCHANGED <<probe, calc, text, plot>>
    /\ UNCHANGED histVars
    /\ UNCHANGED calcVars
    /\ UNCHANGED appVars
    /\ UNCHANGED animVars

\* the live preview of streamlit_app.py for the first n forces of the probe
ApplyPreviewLimits ==
    /\ probe.kind = "layout" /\ out = None
    /\ \E n \in 2..MaxForces, method \in Methods :
       \E vl \in {vector_list(SubSeq(probe.forces, 1, n))} :
       \E max_val \in {preview_max_val(vl)},
          x_vals \in {preview_vals(vl, "x")},
          y_vals \in {preview_vals(vl, "y")} :
          out' = [fn |-> "preview_limits", method |-> method,
                  val |-> streamlit_limits(x_vals, y_vals, max_val),
                  points |-> preview_points(method, vl)]
    /\ UNCHANGED <<probe, calc, text, plot>>
    /\ UNCHANGED histVars
    /\ UNCHANGED calcVars
    /\ UNCHANGED appVars
    /\ UNCHANGED animVars

NextFns ==
    \/ ApplyRelativeAngle
    \/ ApplyQuadrant
    \/ ApplyContributionNote
    \/ ApplyTipToTailArcs
    \/ ApplyPlotArcs
    \/ ApplyResultLimits
    \/ ApplyPreviewLimits

SpecFns == InitFns /\ [][NextFns]_vars

(***************************************************************************)
(* Claims about the helper functions (checked under SpecFns).              *)
(***************************************************************************)
Applied(fn) == out # None /\ out.fn = fn

\* the distance between two angles around the circle
Separation(a, b) ==
    LET S == {Abs(b - a + k * FullTurn) : k \in -4..4}
    IN  CHOOSE d \in S : \A e \in S : d <= e

\* C12: relative_angle(a, b) lies in [0, 180] and equals d if d <= 180 else
\* 360 - d, where d = (b - a) mod 360, for negative angles and angles of 360
\* or more as well.
C12_RelativeAngle ==
    Applied("relative_angle") =>
        LET d == (probe.b - probe.a) % FullTurn
        IN  /\ 0 <= out.val /\ out.val <= Deg(180)
            /\ out.val = IF d <= Deg(180) THEN d ELSE FullTurn - d
            /\ out.val = Separation(probe.a, probe.b)

\* C12 witness: relative_angle(350, 10) = 20.
C12_Witness_Wraps ==
    /\ Applied("relative_angle")
    /\ probe.a = Deg(350) /\ probe.b = Deg(10) /\ out.val = Deg(20)

AxisLabels == {"+x axis", "+y axis", "-x axis", "-y axis"}
AllLabels == AxisLabels \cup {"Q1", "Q2", "Q3", "Q4"}

C14_ContributionNote ==
    Applied("contribution_note") =>
        LET a == Abs(Val(probe.u))
            b == Abs(Val(probe.v))
        IN  out.val.note = (IF a = 0 /\ b = 0 THEN "No net component"
                            ELSE IF a > b THEN "F1 dominates"
                            ELSE IF b > a THEN "F2 dominates"
                            ELSE "F1 and F2 equally dominates")

\* C14 witness: contribution_note(5, -5, axis) reports a tie.
C14_Witness_Tie ==
    /\ Applied("contribution_note")
    /\ probe.u = F(5) /\ probe.v = F(-5)
    /\ out.val.note = "F1 and F2 equally dominates"

\* the radii of two arcs, when both are drawn, are in strictly increasing order
Nested(inner, outer) ==
    (inner # None /\ outer # None) => inner.arc_radius < outer.arc_radius

\* the radius of the k-th tip-to-tail arc
TipRadius(k) == Val(out.val[k].arc_radius)

\* C17 as stated: with max_val > 0 the arcs of the first vector, the second
\* vector and the resultant have strictly increasing radii, and in the
\* tip-to-tail layout the radius grows from each vector to the next by the
\* same increment.
C17_ArcsNest ==
    /\ (Applied("plot_arcs") /\ out.max_val.m > 0) =>
          /\ Nested(out.val.f1, out.val.f2)
          /\ Nested(out.val.f2, out.val.r)
          /\ Nested(out.val.f1, out.val.r)
    /\ Applied("tip_to_tail_arcs") =>
          \A i, j \in 1..(Len(out.val) - 1) :
             (out.val[i] # None /\ out.val[i + 1] # None
                 /\ out.val[j] # None /\ out.val[j + 1] # None) =>
                TipRadius(i + 1) - TipRadius(i) = TipRadius(j + 1) - TipRadius(j)

\* C17 amended: with max_val > 0 the drawn arcs of the first vector, the
\* second vector and the resultant have strictly increasing radii; in the
\* tip-to-tail layout the radius strictly grows from each vector to the
\* next, and two such increments agree up to the rounding of the radii.
C17_ArcsNestUpToRounding ==
    /\ (Applied("plot_arcs") /\ out.max_val.m > 0) =>
          /\ Nested(out.val.f1, out.val.f2)
          /\ Nested(out.val.f2, out.val.r)
          /\ Nested(out.val.f1, out.val.r)
    /\ (Applied("tip_to_tail_arcs") /\ out.max_val.m > 0) =>
          \A i, j \in 1..(Len(out.val) - 1) :
             (out.val[i] # None /\ out.val[i + 1] # None
                 /\ out.val[j] # None /\ out.val[j + 1] # None) =>
                /\ TipRadius(i + 1) > TipRadius(i)
                /\ Abs((TipRadius(i + 1) - TipRadius(i)) - (TipRadius(j + 1) - TipRadius(j)))
                      * Pow2(Precision)
                   <= 4 * Max(TipRadius(i + 1), TipRadius(j + 1)) + 2 * Pow2(Precision)

\* C17 witness: a tip-to-tail layout with three arcs whose two increments
\* were rounded differently.
C17_Witness_Increments ==
    /\ Applied("tip_to_tail_arcs") /\ out.max_val.m > 0
    /\ out.val[1] # None /\ out.val[2] # None /\ out.val[3] # None
    /\ TipRadius(2) - TipRadius(1) # TipRadius(3) - TipRadius(2)

(***************************************************************************)
(* Claims about the wording of the solution text (checked under SpecText). *)
(***************************************************************************)
\* the solution text of the latest calculation has been written
Written == calc # None /\ text # None /\ text.raised = ""

\* the class a relation word or an explanatory line belongs to
Class(line) ==
    CASE line \in {"reinforce each other",
                   "(< 90 means forces pull in similar directions)"} -> "similar"
      [] line \in {"are nearly perpendicular",
                   "(~ 90 means forces are perpendicular)"} -> "perpendicular"
      [] line \in {"partly cancel each other",
                   "(> 90 means forces pull in opposite directions)"} -> "opposite"

\* C19: the separation s of the two input angles is classified as
\* 'reinforce each other' if s < 90, else 'are nearly perpendicular' if
\* |s - 90| <= 5, else 'partly cancel each other', and the explanatory line
\* is of the same class as the relation word.
C19_RelationClass ==
    Written =>
        LET s == Separation(calc.res.f1.angle, calc.res.f2.angle)
        IN  /\ text.relation = IF s < Deg(90) THEN "reinforce each other"
                               ELSE IF Abs(s - Deg(90)) <= Deg(5)
                                    THEN "are nearly perpendicular"
                                    ELSE "partly cancel each other"
            /\ Class(text.explanation) = Class(text.relation)

\* C19 witness: a separation of 87 degrees, within 5 degrees of the right
\* angle and yet classified as reinforcing.
C19_Witness_Precedence ==
    /\ Written
    /\ Separation(calc.res.f1.angle, calc.res.f2.angle) = Deg(87)
    /\ text.relation = "reinforce each other"
    /\ Class(text.explanation) = "similar"

\* C20: for a resultant angle in (-180, 180] the directional phrase says
\* 'left' whenever r.x < 0, 'right' whenever r.x > 0, 'up' whenever r.y > 0
\* and 'down' whenever r.y < 0.
C20_DirectionAgrees ==
    (Written /\ -Deg(180) < calc.res.r.angle /\ calc.res.r.angle <= Deg(180)) =>
        LET r == calc.res.r
        IN  /\ Val(r.x) < 0 => text.direction \in {"(up and to the left)", "(down and to the left)"}
            /\ Val(r.x) > 0 => text.direction \in {"(up and to the right)", "(down and to the right)"}
            /\ Val(r.y) > 0 => text.direction \in {"(up and to the right)", "(up and to the left)"}
            /\ Val(r.y) < 0 => text.direction \in {"(down and to the left)", "(down and to the right)"}

\* C21: the near-vertical note is emitted exactly when |r.x| < ZERO_THRESHOLD
\* and the near-horizontal note exactly when |r.y| < ZERO_THRESHOLD, also
\* for a resultant whose two components are both within the threshold.
C21_NotesExact ==
    Written =>
        LET r == calc.res.r
            notes == IF text.step4_note = "" THEN {} ELSE {text.step4_note}
        IN  /\ ("NOTE: x~0, so force is nearly vertical" \in notes)
                  <=> (r.x.m < ZERO_THRESHOLD)
            /\ ("NOTE: y~0, so force is nearly horizontal" \in notes)
                  <=> (r.y.m < ZERO_THRESHOLD)

(***************************************************************************)
(* Claims about the plot extents (checked under SpecFns).                  *)
(***************************************************************************)
\* the coordinate c lies between the limits lim, at least padding away from
\* both, up to the rounding of the limits
Padded(c, lim, padding) ==
    LET tol == 1 + (Max(lim.lo.m, lim.hi.m) \div Pow2(Precision - 1))
    IN  /\ Val(lim.lo) <= Val(c) /\ Val(c) <= Val(lim.hi)
        /\ Val(lim.hi) - Val(c) >= Val(padding) - tol
        /\ Val(c) - Val(lim.lo) >= Val(padding) - tol

\* the end points of every arrow drawn are inside the padded axis limits
Visible ==
    \A pt \in out.points :
        /\ Padded(pt.x, out.val.xlim, out.val.padding)
        /\ Padded(pt.y, out.val.ylim, out.val.padding)

\* C22: in the calculated result and in the live preview, for both methods,
\* the origin and both end points of every drawn vector (in tip-to-tail the
\* tail and the tip of each vector, the tip of the last one included) lie
\* inside the axis limits, at least padding = 0.3 * max_val from each limit.
C22_ExtentsCoverVectors ==
    (Applied("result_limits") \/ Applied("preview_limits")) => Visible

\* the calculate branch alone keeps every end point inside the padded limits
ResultExtentsCoverVectors == Applied("result_limits") => Visible


(***************************************************************************)
(* vector_gui_modern.py: the arrow animation of the desktop GUI.           *)
(* animation_progress is counted in hundredths (animation_speed 0.04 is 4, *)
(* the end of the arrows 1.0 is 100, the end of the arcs 1.33 is 133); the *)
(* eased values handed to draw_vectors_on_ax are exact fractions.  A timer *)
(* is a callback registered by root.after and not yet run or cancelled.    *)
(***************************************************************************)
MaxStarts == 2                      \* calculations, undos and redos in one run

animation_speed == 4                \* 0.04
ArrowsEnd == 100                    \* 1.0
ArcDuration == 33                   \* 0.33
AnimationEnd == ArrowsEnd + ArcDuration

\* the fraction n / d
Fraction(n, d) == [num |-> n, den |-> d]
One == Fraction(1, 1)
AtLeastOne(q) == q.num >= q.den
Cube(n) == n * n * n

\* 1 - pow(1 - t, 3) for t = min(1.0, animation_progress)
arrow_progress(progress) ==
    LET t == Min(ArrowsEnd, progress)
    IN  Fraction(Cube(ArrowsEnd) - Cube(ArrowsEnd - t), Cube(ArrowsEnd))

\* arc_progress of animate_step: 1.0 + (1 - pow(1 - arc_t, 3)) * 0.33 with
\* arc_t = min(1.0, (animation_progress - 1.0) / 0.33) once the arrows are
\* complete, arrow_progress before
arc_progress(progress) ==
    IF progress >= ArrowsEnd
    THEN LET left == ArcDuration - Min(ArcDuration, progress - ArrowsEnd)
             den == ArrowsEnd * Cube(ArcDuration)
         IN  Fraction(den + (Cube(ArcDuration) - Cube(left)) * ArcDuration, den)
    ELSE arrow_progress(progress)

\* min(1.0, (arc_progress - 1.0) * 3)
arc_angle_progress(arc) ==
    Fraction(Min(arc.den, (arc.num - arc.den) * 3), arc.den)

\* what draw_vectors_on_ax paints: the arrows scaled by progress, the
\* construction lines when progress >= 1.0, and when arc_progress >= 1.0 the
\* arcs spanning angle * arc_angle_progress
draw_vectors_on_ax(by, v, progress, arc) ==
    [by |-> by, vectors |-> v, progress |-> progress,
     construction |-> AtLeastOne(progress),
     arc_angle_progress |-> IF AtLeastOne(arc) THEN arc_angle_progress(arc) ELSE None]

\* the final frame: progress=1.0, arc_progress=1.33
final_frame(by, v) == draw_vectors_on_ax(by, v, One, Fraction(AnimationEnd, ArrowsEnd))

\* animation_id = None: no id yet
NoTimer == 0

\* the ids root.after may return
TimerIds == 1..(MaxStarts + 2)

\* root.after(16, self.animate_step): an id no pending timer has and
\* animation_id does not hold
after(pending, id) == CHOOSE i \in TimerIds \ (pending \cup {id}) :
                         \A j \in TimerIds \ (pending \cup {id}) : i <= j

\* start_animation without the after_cancel
cancel_pending_Never(pending, running, id) == pending

\* "if self.animation_running and self.animation_id: after_cancel(animation_id)"
cancel_pending(pending, running, id) ==
    IF running /\ id # NoTimer THEN pending \ {id} ELSE pending

\* animation_progress left as it is
advance_Stalls(progress) == progress

\* self.animation_progress += self.animation_speed
advance(progress) == progress + animation_speed

\* animate_step, run with the timers pending, animation_progress = progress,
\* animation_running = running and stored_vectors = v
animate_step(pending, progress, running, v) ==
    IF v = 0
    THEN /\ animation_running' = FALSE
         /\ animation_progress' = progress
         /\ timers' = pending
         /\ UNCHANGED <<animation_id, canvas>>
    ELSE /\ animation_progress' = advance(progress)
         /\ IF advance(progress) < AnimationEnd
            THEN /\ canvas' = draw_vectors_on_ax("step", v, arrow_progress(progress),
                                                 arc_progress(progress))
                 /\ animation_id' = after(pending, animation_id)
                 /\ timers' = pending \cup {after(pending, animation_id)}
                 /\ animation_running' = running
            ELSE /\ animation_running' = FALSE
                 /\ canvas' = final_frame("final", v)
                 /\ timers' = pending
                 /\ UNCHANGED animation_id

Starters == {"calculate_and_plot", "history_undo", "history_redo"}

InitAnim ==
    /\ animation_enabled = TRUE /\ animation_running = FALSE /\ animation_id = NoTimer
    /\ animation_progress = 0 /\ timers = {} /\ vectors = 0
    /\ canvas = None /\ event = [handler |-> "init", cancelled |-> {}]
    /\ max_size = 1 /\ history = <<>> /\ heap = <<>> /\ now = 0
    /\ view = None /\ op = "init" /\ arg = 0 /\ nadds = 0
    /\ NoCalculation
    /\ NoSession
    /\ NoProbe

\* a calculation, undo or redo that stores vectors and calls start_animation
StartAnimation ==
    /\ vectors < MaxStarts
    /\ vectors' = vectors + 1
    /\ \E handler \in Starters :
          IF ~animation_enabled
          THEN /\ canvas' = final_frame("direct", vectors')
               /\ event' = [handler |-> handler, cancelled |-> {}]
               /\ UNCHANGED <<animation_running, animation_id, animation_progress, timers>>
          ELSE LET pending == cancel_pending(timers, animation_running, animation_id)
               IN  /\ animate_step(pending, 0, TRUE, vectors')
                   /\ event' = [handler |-> handler, cancelled |-> timers \ pending]
    /\ UNCHANGED animation_enabled
    /\ UNCHANGED histVars
    /\ UNCHANGED calcVars
    /\ UNCHANGED appVars
    /\ UNCHANGED fnVars

\* Tk runs a pending animate_step callback
TimerFires ==
    /\ \E id \in timers :
          animate_step(timers \ {id}, animation_progress, animation_running, vectors)
    /\ event' = [handler |-> "animate_step", cancelled |-> {}]
    /\ UNCHANGED <<animation_enabled, vectors>>
    /\ UNCHANGED histVars
    /\ UNCHANGED calcVars
    /\ UNCHANGED appVars
    /\ UNCHANGED fnVars

\* ModernVectorGUI.toggle_animation
ToggleAnimation ==
    /\ animation_enabled' = ~animation_enabled
    /\ event' = [handler |-> "toggle_animation", cancelled |-> {}]
    /\ UNCHANGED <<animation_running, animation_id, animation_progress, timers,
                   vectors, canvas>>
    /\ UNCHANGED histVars
    /\ UNCHANGED calcVars
    /\ UNCHANGED appVars
    /\ UNCHANGED fnVars

NextAnim ==
    \/ StartAnimation
    \/ TimerFires
    \/ ToggleAnimation

SpecAnim == InitAnim /\ [][NextAnim]_vars

\* the Tk event loop runs every callback that stays pending
SpecAnimLive == SpecAnim /\ WF_vars(TimerFires)

(***************************************************************************)
(* Claims about the animation (checked under SpecAnim and SpecAnimLive).   *)
(***************************************************************************)
\* C24: the final frame, drawn when the animation ends or directly when
\* animation is disabled, shows full-length arrows and full arcs: its arc
\* angle factor min(1.0, (arc_progress - 1.0) * 3) equals 1.0.
C24_FinalFrameFull ==
    (canvas # None /\ canvas.by \in {"final", "direct"}) =>
        /\ canvas.progress = One /\ canvas.construction
        /\ canvas.arc_angle_progress # None
        /\ canvas.arc_angle_progress.num = canvas.arc_angle_progress.den

\* with animation disabled a start draws the final state at once, and no
\* animate_step replaces a directly drawn final state by a frame of its own
DrawnAtOnce ==
    /\ (event'.handler \in Starters /\ event' # event /\ ~animation_enabled) =>
          (canvas'.by = "direct" /\ canvas'.vectors = vectors' /\ canvas'.progress = One)
    /\ (canvas # None /\ canvas.by = "direct" /\ ~animation_enabled
          /\ event'.handler = "animate_step") => canvas'.by # "step"

\* C25: when animation is disabled a calculation, undo or redo draws the
\* final state at once and no animation step redraws the plot at partial
\* progress afterwards, also when an earlier animation still had a step
\* pending when toggle_animation disabled it.
C25_NoStepWhenDisabled == [][DrawnAtOnce]_vars

\* C29: an animation that was started terminates: every animate_step adds
\* animation_speed to animation_progress, and a running animation leads to a
\* state where animation_running is false, no step is pending and the final
\* frame has been drawn.
C29_AnimationTerminates ==
    /\ [][(event'.handler = "animate_step" /\ event' # event /\ vectors > 0) =>
             animation_progress' = animation_progress + animation_speed]_vars
    /\ animation_running ~>
          (~animation_running /\ timers = {} /\ canvas # None /\ canvas.by = "final")

\* C29 witness: an animation ran to its end.
C29_Witness_Finished ==
    /\ event.handler = "animate_step" /\ ~animation_running /\ timers = {}
    /\ animation_progress >= AnimationEnd /\ canvas.by = "final"

\* C30: at most one animation step is pending at any time, it is the one
\* animation_id names, and a start that finds an animation running cancels
\* its pending step before scheduling a new one.
C30_OnePendingStep ==
    /\ Cardinality(timers) <= 1
    /\ timers # {} => (timers = {animation_id} /\ animation_running)
    /\ event.handler \in Starters => timers \cap event.cancelled = {}

\* C30 witness: a start found an animation running, cancelled its pending
\* step and scheduled its own.
C30_Witness_Restarted ==
    /\ event.handler \in Starters /\ event.cancelled # {}
    /\ Cardinality(timers) = 1 /\ animation_progress = animation_speed

====
